---- MODULE Spec2Model ----
(***************************************************************************)
(* Movie Explorer (GiancristofaroPaolaFinalProject.py): the search window, *)
(* its six entry fields, the Search button and the search_data handler.    *)
(*                                                                         *)
(* A text is a sequence of one-character strings.  A number read from the  *)
(* rating column or parsed by float() is a pair num/den with den > 0.      *)
(***************************************************************************)
EXTENDS Integers, Sequences, FiniteSets, TLC

(* ---------------------------------------------------------------------- *)
(* Bounds                                                                 *)
(* ---------------------------------------------------------------------- *)
\* number of rows of each CSV file that are loaded into the model
MaxRecords == 3

(* ---------------------------------------------------------------------- *)
(* Program constants                                                      *)
(* ---------------------------------------------------------------------- *)
MinYear == 1920
MaxYear == 2022
MinRating == 1
MaxRating == 10

Fields == <<"title", "genre", "release_date", "rating", "actor", "director">>
FieldSet == {Fields[i] : i \in 1..Len(Fields)}

MsgInputRequired == "Please enter search criteria in at least one field."
MsgYearRange == "Invalid year. Please enter a year between 1920 and 2022."
MsgYearNotInt == "Release year must be an integer between 1920 and 2022."
MsgRatingRange == "Rating should be between 1 and 10."
MsgRatingNotNum == "Invalid rating. Please enter a number between 1 and 10."
MsgNoResults == "No results found. Please adjust your search criteria."

(* ---------------------------------------------------------------------- *)
(* str.strip(), int(), float()                                            *)
(* ---------------------------------------------------------------------- *)
Whitespace == {" "}
Digits == {"0", "1", "2", "3", "4", "5", "6", "7", "8", "9"}
DigitVal == ("0" :> 0) @@ ("1" :> 1) @@ ("2" :> 2) @@ ("3" :> 3) @@ ("4" :> 4)
            @@ ("5" :> 5) @@ ("6" :> 6) @@ ("7" :> 7) @@ ("8" :> 8) @@ ("9" :> 9)

RECURSIVE LStrip(_)
LStrip(s) == IF s # <<>> /\ Head(s) \in Whitespace THEN LStrip(Tail(s)) ELSE s

RECURSIVE RStrip(_)
RStrip(s) ==
    IF s # <<>> /\ s[Len(s)] \in Whitespace THEN RStrip(SubSeq(s, 1, Len(s) - 1)) ELSE s

\* str.strip(): leading and trailing whitespace removed
Strip(s) == RStrip(LStrip(s))

\* value of a non-empty run of decimal digits
RECURSIVE DigitsValue(_)
DigitsValue(s) ==
    IF s = <<>> THEN 0 ELSE 10 * DigitsValue(SubSeq(s, 1, Len(s) - 1)) + DigitVal[s[Len(s)]]

\* digits, with single underscores allowed between two digits (Python literal rule)
IsDigitRun(s) ==
    /\ s # <<>>
    /\ \A i \in 1..Len(s) :
          \/ s[i] \in Digits
          \/ /\ s[i] = "_"
             /\ i > 1 /\ i < Len(s)
             /\ s[i - 1] \in Digits /\ s[i + 1] \in Digits

NoUnderscore(s) == SelectSeq(s, LAMBDA c : c # "_")

Unsigned(s) == IF s # <<>> /\ Head(s) \in {"+", "-"} THEN Tail(s) ELSE s
IsNegative(s) == s # <<>> /\ Head(s) = "-"

SignOf(s) == IF IsNegative(s) THEN 0 - 1 ELSE 1

\* int(text): ok = FALSE stands for ValueError
ParseIntStripped(t) ==
    IF IsDigitRun(Unsigned(t))
    THEN [ok |-> TRUE, val |-> SignOf(t) * DigitsValue(NoUnderscore(Unsigned(t)))]
    ELSE [ok |-> FALSE, val |-> 0]

ParseInt(s) == ParseIntStripped(Strip(s))

RECURSIVE Pow10(_)
Pow10(n) == IF n = 0 THEN 1 ELSE 10 * Pow10(n - 1)

DotPositions(s) == {i \in 1..Len(s) : s[i] = "."}

\* lower case of the letters that occur in the datasets and the entry texts
Lower(c) ==
    CASE c = "A" -> "a" [] c = "B" -> "b" [] c = "C" -> "c" [] c = "D" -> "d"
      [] c = "E" -> "e" [] c = "F" -> "f" [] c = "I" -> "i" [] c = "N" -> "n"
      [] OTHER -> c

LowerText(s) == [i \in 1..Len(s) |-> Lower(s[i])]

FloatErr == [kind |-> "err", num |-> 0, den |-> 1]
FloatNum(n, d) == [kind |-> "num", num |-> n, den |-> d]

\* integer part ip and fraction part fp around the single '.'
ParseDecimal(sign, ip, fp) ==
    IF /\ (ip # <<>> \/ fp # <<>>)
       /\ (ip = <<>> \/ IsDigitRun(ip))
       /\ (fp = <<>> \/ IsDigitRun(fp))
    THEN FloatNum(sign * (DigitsValue(NoUnderscore(ip)) * Pow10(Len(NoUnderscore(fp)))
                          + DigitsValue(NoUnderscore(fp))),
                  Pow10(Len(NoUnderscore(fp))))
    ELSE FloatErr

DotAt(u) == CHOOSE i \in DotPositions(u) : TRUE

ParseFloatSigned(sign, u) ==
    IF LowerText(u) = <<"n", "a", "n">> THEN [kind |-> "nan", num |-> 0, den |-> 1]
    ELSE IF LowerText(u) = <<"i", "n", "f">> THEN [kind |-> "inf", num |-> sign, den |-> 1]
    ELSE IF DotPositions(u) = {}
    THEN IF IsDigitRun(u) THEN FloatNum(sign * DigitsValue(NoUnderscore(u)), 1) ELSE FloatErr
    ELSE IF Cardinality(DotPositions(u)) > 1 THEN FloatErr
    ELSE ParseDecimal(sign, SubSeq(u, 1, DotAt(u) - 1), SubSeq(u, DotAt(u) + 1, Len(u)))

\* float(text): kind "err" stands for ValueError; "num" is num/den, den > 0;
\* "nan" and "inf" are the IEEE specials float() accepts by name.
ParseFloat(s) == ParseFloatSigned(SignOf(Strip(s)), Unsigned(Strip(s)))

\* a <= b on num/den pairs
NumLeq(a, b) == a.num * b.den <= b.num * a.den

\* the chained comparison  lo <= x <= hi  on a parsed float; false for nan and inf
FloatInRange(x, lo, hi) ==
    /\ x.kind = "num"
    /\ NumLeq([num |-> lo, den |-> 1], x)
    /\ NumLeq(x, [num |-> hi, den |-> 1])

(* ---------------------------------------------------------------------- *)
(* re.compile(pat, re.IGNORECASE) and Pattern.search, which is what       *)
(* Series.str.contains(pat, case=False, na=False) runs (regex=True is the *)
(* default).  Covered syntax: literals, '.', '*', '|', '(' and ')'.       *)
(* ---------------------------------------------------------------------- *)
Node(t, c, xs) == [t |-> t, c |-> c, xs |-> xs]
ParseOk(n, i) == [ok |-> TRUE, err |-> "", node |-> n, next |-> i]
ParseErr(e) == [ok |-> FALSE, err |-> e, node |-> Node("cat", "", <<>>), next |-> 0]

RECURSIVE ParseAlt(_, _)
RECURSIVE ParseConcat(_, _)
RECURSIVE ParseRep(_, _)
RECURSIVE ParseAtom(_, _)

CloseGroup(p, r) ==
    IF ~r.ok THEN r
    ELSE IF r.next <= Len(p) /\ p[r.next] = ")"
         THEN ParseOk(Node("group", "", <<r.node>>), r.next + 1)
         ELSE ParseErr("missing ), unterminated subpattern")

ParseAtom(p, i) ==
    IF p[i] = "(" THEN CloseGroup(p, ParseAlt(p, i + 1))
    ELSE IF p[i] = "*" THEN ParseErr("nothing to repeat")
    ELSE IF p[i] = "." THEN ParseOk(Node("any", "", <<>>), i + 1)
    ELSE ParseOk(Node("lit", p[i], <<>>), i + 1)

Repeat(p, a) ==
    IF ~a.ok THEN a
    ELSE IF a.next <= Len(p) /\ p[a.next] = "*"
         THEN IF a.next + 1 <= Len(p) /\ p[a.next + 1] = "*"
              THEN ParseErr("multiple repeat")
              ELSE ParseOk(Node("star", "", <<a.node>>), a.next + 1)
         ELSE a

ParseRep(p, i) == Repeat(p, ParseAtom(p, i))

ConcatJoin(r, rest) ==
    IF ~rest.ok THEN rest
    ELSE ParseOk(Node("cat", "", <<r.node>> \o rest.node.xs), rest.next)

ConcatRest(p, r) == IF ~r.ok THEN r ELSE ConcatJoin(r, ParseConcat(p, r.next))

ParseConcat(p, i) ==
    IF i > Len(p) \/ p[i] \in {"|", ")"}
    THEN ParseOk(Node("cat", "", <<>>), i)
    ELSE ConcatRest(p, ParseRep(p, i))

AltJoin(c, r) ==
    IF ~r.ok THEN r ELSE ParseOk(Node("alt", "", <<c.node, r.node>>), r.next)

AltRest(p, c) ==
    IF ~c.ok THEN c
    ELSE IF c.next <= Len(p) /\ p[c.next] = "|" THEN AltJoin(c, ParseAlt(p, c.next + 1))
    ELSE c

ParseAlt(p, i) == AltRest(p, ParseConcat(p, i))

WholePattern(p, r) ==
    IF ~r.ok THEN r
    ELSE IF r.next <= Len(p) THEN ParseErr("unbalanced parenthesis")
    ELSE r

\* re.compile: ok = FALSE stands for re.error
ReCompile(p) == WholePattern(p, ParseAlt(p, 1))

RECURSIVE MatchSpan(_, _, _, _)
RECURSIVE MatchCat(_, _, _, _)

\* node n matches exactly s[i .. j-1], letter case ignored
MatchSpan(n, s, i, j) ==
    CASE n.t = "lit" -> j = i + 1 /\ i <= Len(s) /\ Lower(s[i]) = Lower(n.c)
      [] n.t = "any" -> j = i + 1 /\ i <= Len(s) /\ s[i] # "\n"
      [] n.t = "cat" -> MatchCat(n.xs, s, i, j)
      [] n.t = "group" -> MatchSpan(n.xs[1], s, i, j)
      [] n.t = "alt" -> \E k \in 1..Len(n.xs) : MatchSpan(n.xs[k], s, i, j)
      [] n.t = "star" ->
            \/ i = j
            \/ \E k \in (i + 1)..j : MatchSpan(n.xs[1], s, i, k) /\ MatchSpan(n, s, k, j)

MatchCat(xs, s, i, j) ==
    IF xs = <<>> THEN i = j
    ELSE \E k \in i..j : MatchSpan(Head(xs), s, i, k) /\ MatchCat(Tail(xs), s, k, j)

\* Pattern.search(s) is not None
ReSearch(n, s) ==
    \E i \in 1..(Len(s) + 1) : \E j \in i..(Len(s) + 1) : MatchSpan(n, s, i, j)

(* ---------------------------------------------------------------------- *)
(* The two datasets (read_csv at start-up, read-only afterwards)          *)
(* ---------------------------------------------------------------------- *)
Rec(t, g, y, rn, rd, a, d) ==
    [title |-> t, genre |-> g, year |-> y, rating |-> [num |-> rn, den |-> rd],
     actors |-> a, director |-> d]

Catalog18Plus ==
    << Rec(<<"A", "b">>, <<"d">>,      2010, 88, 10, <<"e">>,      <<"n">>),
       Rec(<<"a", ".">>, <<"c">>,      1920, 10, 1,  <<"E", "f">>, <<"N">>),
       Rec(<<"B">>,      <<"D", "c">>, 2022, 1,  1,  <<"f">>,      <<"i">>),
       Rec(<<"b", "a">>, <<"d">>,      2010, 75, 10, <<"e">>,      <<"i", "n">>),
       Rec(<<"c">>,      <<"c", "d">>, 2022, 88, 10, <<"f", "e">>, <<"n">>) >>

CatalogUnder18 ==
    << Rec(<<"B", "a">>, <<"c">>,      2022, 9,  1,  <<"f">>,      <<"i">>),
       Rec(<<"a">>,      <<"d">>,      2010, 88, 10, <<"e">>,      <<"n">>),
       Rec(<<"b", ".">>, <<"D">>,      1920, 10, 1,  <<"E">>,      <<"N">>),
       Rec(<<"d">>,      <<"c">>,      2010, 1,  1,  <<"f">>,      <<"n">>) >>

FirstRows(cat, n) == SubSeq(cat, 1, IF n < Len(cat) THEN n ELSE Len(cat))

data_18_plus == FirstRows(Catalog18Plus, MaxRecords)
data_under_18 == FirstRows(CatalogUnder18, MaxRecords - 1)

DatasetNames == {"data_18_plus", "data_under_18"}
Dataset(name) == IF name = "data_18_plus" THEN data_18_plus ELSE data_under_18

(* ---------------------------------------------------------------------- *)
(* What the user may type into each Entry                                 *)
(* ---------------------------------------------------------------------- *)
EntryTexts ==
    [title        |-> {<<>>, <<" ">>, <<"a">>, <<".">>, <<"(">>, <<"|">>, <<"b", "*">>},
     genre        |-> {<<>>, <<"d">>, <<".">>},
     release_date |-> {<<>>, <<" ", "1", "9", "2", "0">>, <<"1", "9", "1", "9">>,
                       <<"2", "0", "1", "0">>, <<"2", "0", "2", "2">>,
                       <<"2", "0", "2", "3">>, <<"2", "0", "b">>},
     rating       |-> {<<>>, <<"1">>, <<"1", "0">>, <<"8", ".", "8">>, <<"0", ".", "9">>,
                       <<"1", "0", ".", "1">>, <<"b">>, <<"n", "a", "n">>},
     actor        |-> {<<>>, <<"e">>, <<"(">>},
     director     |-> {<<>>, <<"N">>, <<"|">>}]

EmptyEntries == [f \in FieldSet |-> <<>>]

(* ---------------------------------------------------------------------- *)
(* search_data                                                            *)
(* ---------------------------------------------------------------------- *)
\* the handler's locals: the queries, filtered_data, error_msgs; raised is the
\* exception that left the handler ("" while none); applied lists the fields
\* whose filter was evaluated against filtered_data, in order.
Locals(d, e) ==
    [data |-> d,
     query |-> [f \in FieldSet |-> Strip(e[f])],
     filtered_data |-> d,
     error_msgs |-> <<>>,
     raised |-> "",
     applied |-> <<>>]

\* the pre-strip variant: the raw widget texts are tested
AllFieldsEmptyRaw(e) == \A f \in FieldSet : e[f] = <<>>

\* not any([title_query, ..., director_query])
AllFieldsEmpty(e) == \A f \in FieldSet : Strip(e[f]) = <<>>

\* the same step filtering the original data instead of the working set
FilterCompiledFromData(st, field, column, r) ==
    IF ~r.ok THEN [st EXCEPT !.raised = "re.error: " \o r.err]
    ELSE [st EXCEPT
            !.filtered_data = SelectSeq(st.data, LAMBDA rec : ReSearch(r.node, rec[column])),
            !.applied = Append(@, field)]

ContainsStepFromData(st, field, column) ==
    IF st.raised # "" \/ st.query[field] = <<>> THEN st
    ELSE FilterCompiledFromData(st, field, column, ReCompile(st.query[field]))

FilterCompiled(st, field, column, r) ==
    IF ~r.ok THEN [st EXCEPT !.raised = "re.error: " \o r.err]
    ELSE [st EXCEPT
            !.filtered_data =
                SelectSeq(st.filtered_data, LAMBDA rec : ReSearch(r.node, rec[column])),
            !.applied = Append(@, field)]

\* filtered_data = filtered_data[filtered_data[column].str.contains(q, case=False, na=False)]
ContainsStep(st, field, column) ==
    IF st.raised # "" \/ st.query[field] = <<>> THEN st
    ELSE FilterCompiled(st, field, column, ReCompile(st.query[field]))

YearParsed(st, release_year) ==
    IF ~release_year.ok
    THEN [st EXCEPT !.error_msgs = Append(@, MsgYearNotInt)]
    ELSE IF ~(MinYear <= release_year.val /\ release_year.val <= MaxYear)
    THEN [st EXCEPT !.error_msgs = Append(@, MsgYearRange)]
    ELSE [st EXCEPT
            !.filtered_data =
                SelectSeq(st.filtered_data, LAMBDA rec : rec.year = release_year.val),
            !.applied = Append(@, "release_date")]

YearStep(st) ==
    IF st.raised # "" \/ st.query["release_date"] = <<>> THEN st
    ELSE YearParsed(st, ParseInt(st.query["release_date"]))

RatingParsed(st, rating_num) ==
    IF rating_num.kind = "err"
    THEN [st EXCEPT !.error_msgs = Append(@, MsgRatingNotNum)]
    ELSE IF ~FloatInRange(rating_num, MinRating, MaxRating)
    THEN [st EXCEPT !.error_msgs = Append(@, MsgRatingRange)]
    ELSE [st EXCEPT
            !.filtered_data =
                SelectSeq(st.filtered_data, LAMBDA rec : NumLeq(rating_num, rec.rating)),
            !.applied = Append(@, "rating")]

RatingStep(st) ==
    IF st.raised # "" \/ st.query["rating"] = <<>> THEN st
    ELSE RatingParsed(st, ParseFloat(st.query["rating"]))

\* lines 96-145: the six steps in source order
ApplyFilters(d, e) ==
    ContainsStep(
      ContainsStep(
        RatingStep(
          YearStep(
            ContainsStep(
              ContainsStep(Locals(d, e), "title", "title"),
              "genre", "genre"))),
        "actor", "actors"),
      "director", "director")

NoDialog == <<>>
Dialog(title, lines) == <<[title |-> title, message |-> lines]>>

\* show_results(data, search_window): what it does to the windows
ShowResults(rows, error_msg) ==
    IF rows = <<>> \/ error_msg # <<>>
    THEN [messagebox |-> Dialog("Error",
                                IF error_msg # <<>> THEN error_msg
                                ELSE <<"No results found. Please try different search criteria.">>),
          destroyed |-> FALSE, result_window |-> <<>>]
    ELSE [messagebox |-> NoDialog, destroyed |-> TRUE, result_window |-> rows]

\* lines 147-157, or the exception leaving the handler
Finish(st) ==
    IF st.raised # ""
    THEN [button |-> <<"disabled">>, messagebox |-> NoDialog,
          raised |-> st.raised, applied |-> st.applied,
          destroyed |-> FALSE, result_window |-> <<>>]
    ELSE IF st.error_msgs # <<>> \/ st.filtered_data = <<>>
    THEN [button |-> <<"disabled", "normal">>,
          messagebox |-> Dialog("Search Error",
                                IF st.error_msgs = <<>> THEN <<MsgNoResults>>
                                ELSE st.error_msgs),
          raised |-> "", applied |-> st.applied,
          destroyed |-> FALSE, result_window |-> <<>>]
    ELSE [button |-> <<"disabled">>,
          messagebox |-> ShowResults(st.filtered_data, <<>>).messagebox,
          raised |-> "", applied |-> st.applied,
          destroyed |-> TRUE,
          result_window |-> ShowResults(st.filtered_data, <<>>).result_window]

\* one run of search_data(data, entries..., search_window, search_button):
\* the button states it sets in order, the dialog it shows, the exception
\* that leaves it, and what becomes of the two windows.
SearchDataRun(d, e) ==
    IF AllFieldsEmpty(e)
    THEN [button |-> <<"disabled", "normal">>,
          messagebox |-> Dialog("Input Required", <<MsgInputRequired>>),
          raised |-> "", applied |-> <<>>,
          destroyed |-> FALSE, result_window |-> <<>>]
    ELSE Finish(ApplyFilters(d, e))

(* ---------------------------------------------------------------------- *)
(* State                                                                  *)
(* ---------------------------------------------------------------------- *)
VARIABLES
    running,        \* root.mainloop() is running
    search_window,  \* "none", "open" or "destroyed": the search window followed
    data,           \* name of the dataset bound to that window ("" if none)
    entries,        \* text of its six Entry widgets
    search_button,  \* state option of its Search button
    result_window,  \* rows shown in the results Treeview (<<>> if no window)
    call            \* the last search_data run since the entries were edited

vars == <<running, search_window, data, entries, search_button, result_window, call>>

NoCall ==
    [state |-> "none", button |-> <<>>, messagebox |-> NoDialog, raised |-> "",
     applied |-> <<>>]

Init ==
    /\ running = TRUE
    /\ search_window = "none"
    /\ data = ""
    /\ entries = EmptyEntries
    /\ search_button = "normal"
    /\ result_window = <<>>
    /\ call = NoCall

\* under_18_button / adult_button: create_search_window(data).  Every search
\* window has its own entries and button; the model follows the newest one.
CreateSearchWindow(d) ==
    /\ running
    /\ search_window # "open"
    /\ search_window' = "open"
    /\ data' = d
    /\ entries' = EmptyEntries
    /\ search_button' = "normal"
    /\ result_window' = <<>>
    /\ call' = NoCall
    /\ UNCHANGED running

\* the user edits one Entry of the open search window
TypeEntry(f, t) ==
    /\ running
    /\ search_window = "open"
    /\ entries[f] # t
    /\ entries' = [entries EXCEPT ![f] = t]
    /\ call' = NoCall
    /\ UNCHANGED <<running, search_window, data, search_button, result_window>>

\* the effects of one run r of the handler on the widgets
SearchDataEffect(r) ==
    /\ search_button' = r.button[Len(r.button)]
    /\ search_window' = IF r.destroyed THEN "destroyed" ELSE "open"
    /\ result_window' = r.result_window
    /\ call' = [state |-> IF r.raised # "" THEN "raised" ELSE "returned",
                button |-> r.button, messagebox |-> r.messagebox,
                raised |-> r.raised, applied |-> r.applied]

\* the Search button's command; a disabled button does not invoke it
SearchData ==
    /\ running
    /\ search_window = "open"
    /\ search_button = "normal"
    /\ SearchDataEffect(SearchDataRun(Dataset(data), entries))
    /\ UNCHANGED <<running, data, entries>>

\* Back button, answered yes
ConfirmAndGoBack ==
    /\ running
    /\ search_window = "open"
    /\ search_window' = "destroyed"
    /\ call' = NoCall
    /\ UNCHANGED <<running, data, entries, search_button, result_window>>

\* Exit button, answered yes: search_window.quit() ends the main loop
ConfirmExit ==
    /\ running
    /\ search_window = "open"
    /\ running' = FALSE
    /\ call' = NoCall
    /\ UNCHANGED <<search_window, data, entries, search_button, result_window>>

Next ==
    \/ \E d \in DatasetNames : CreateSearchWindow(d)
    \/ \E f \in FieldSet : \E t \in EntryTexts[f] : TypeEntry(f, t)
    \/ SearchData
    \/ ConfirmAndGoBack
    \/ ConfirmExit

Spec == Init /\ [][Next]_vars

(* ---------------------------------------------------------------------- *)
(* Vocabulary of the properties                                           *)
(* ---------------------------------------------------------------------- *)
Called == call.state # "none"
Q(f) == Strip(entries[f])
QueryEmpty == \A f \in FieldSet : Q(f) = <<>>
D == Dataset(data)

ReportLines == IF call.messagebox = <<>> THEN <<>> ELSE call.messagebox[1].message
Reports(m) == \E i \in 1..Len(ReportLines) : ReportLines[i] = m
EmptyQueryReported == Reports(MsgInputRequired)
InvalidYearReported == Reports(MsgYearRange) \/ Reports(MsgYearNotInt)
InvalidRatingReported == Reports(MsgRatingRange) \/ Reports(MsgRatingNotNum)
NoResultsReported == Reports(MsgNoResults)
ResultsShown == result_window # <<>>

YearValue == ParseInt(Q("release_date"))
RatingValue == ParseFloat(Q("rating"))
YearMalformed ==
    /\ Q("release_date") # <<>>
    /\ (~YearValue.ok \/ YearValue.val < MinYear \/ YearValue.val > MaxYear)
RatingMalformed ==
    /\ Q("rating") # <<>>
    /\ (RatingValue.kind # "num"
        \/ ~NumLeq([num |-> MinRating, den |-> 1], RatingValue)
        \/ ~NumLeq(RatingValue, [num |-> MaxRating, den |-> 1]))
ValidQuery == ~QueryEmpty /\ ~YearMalformed /\ ~RatingMalformed

TextFields == {"title", "genre", "actor", "director"}
Column(f) == IF f = "actor" THEN "actors" ELSE IF f = "release_date" THEN "year" ELSE f

\* q occurs in text as a literal contiguous substring, letter case ignored
ContainsLiteral(q, text) ==
    \E i \in 1..(Len(text) - Len(q) + 1) :
        LowerText(SubSeq(text, i, i + Len(q) - 1)) = LowerText(q)

\* the predicate of one field as the specification words it; empty = no constraint
SpecPred(f, rec) ==
    IF Q(f) = <<>> THEN TRUE
    ELSE IF f \in TextFields THEN ContainsLiteral(Q(f), rec[Column(f)])
    ELSE IF f = "release_date" THEN rec.year = YearValue.val
    ELSE NumLeq(RatingValue, rec.rating)

SpecMatches == SelectSeq(D, LAMBDA rec : \A f \in FieldSet : SpecPred(f, rec))

InSeq(x, seq) == \E i \in 1..Len(seq) : seq[i] = x

(* ---------------------------------------------------------------------- *)
(* C1                                                                     *)
(* ---------------------------------------------------------------------- *)
\* C1: a query whose six fields are all empty or whitespace-only gets exactly
\* one error, EmptyQuery, in the "Input Required" dialog; no other error is
\* reported, no predicate is evaluated against the dataset, nothing is raised
\* and no results window is opened.
C1_EmptyQueryAlone ==
    (Called /\ QueryEmpty) =>
        /\ call.messagebox = Dialog("Input Required", <<MsgInputRequired>>)
        /\ ~InvalidYearReported /\ ~InvalidRatingReported /\ ~NoResultsReported
        /\ call.applied = <<>>
        /\ call.state = "returned"
        /\ ~ResultsShown
        /\ search_window = "open"

C1_Witness ==
    /\ Called
    /\ QueryEmpty
    /\ entries["title"] = <<" ">>
    /\ EmptyQueryReported

(* ---------------------------------------------------------------------- *)
(* C2                                                                     *)
(* ---------------------------------------------------------------------- *)
\* C2: every non-empty query with a malformed year or rating opens no results
\* window and its report holds one error per malformed numeric field
\* (InvalidYear and InvalidRating together when both are malformed).
C2_AllValidationErrorsReported ==
    (Called /\ ~QueryEmpty /\ (YearMalformed \/ RatingMalformed)) =>
        /\ ~ResultsShown
        /\ search_window = "open"
        /\ YearMalformed => InvalidYearReported
        /\ RatingMalformed => InvalidRatingReported
        /\ Len(ReportLines) = (IF YearMalformed THEN 1 ELSE 0)
                              + (IF RatingMalformed THEN 1 ELSE 0)

(* ---------------------------------------------------------------------- *)
(* C3                                                                     *)
(* ---------------------------------------------------------------------- *)
\* C3: NoResults is reported exactly when the query is non-empty, has no
\* validation error and its predicates match zero records; NoResults never
\* shares a report with EmptyQuery, InvalidYear or InvalidRating; a results
\* window is never opened with an empty record set.
C3_NoResultsExactly ==
    Called =>
        /\ NoResultsReported <=> (ValidQuery /\ SpecMatches = <<>>)
        /\ NoResultsReported =>
              ~(EmptyQueryReported \/ InvalidYearReported \/ InvalidRatingReported)
        /\ search_window = "destroyed" => ResultsShown

(* ---------------------------------------------------------------------- *)
(* C4                                                                     *)
(* ---------------------------------------------------------------------- *)
\* C4: for a valid non-empty query matching at least one record, the rows
\* handed to show_results are exactly the records satisfying every active
\* predicate, each once and in dataset order.
C4_ShownIsConjunction ==
    (Called /\ ValidQuery /\ SpecMatches # <<>>) => result_window = SpecMatches

(* ---------------------------------------------------------------------- *)
(* C5                                                                     *)
(* ---------------------------------------------------------------------- *)
OnlyField(f) == Q(f) # <<>> /\ \A g \in FieldSet \ {f} : Q(g) = <<>>

\* C5: for a non-empty year field InvalidYear is reported iff the text is not
\* an integer in [1920, 2022]; an empty year field never yields InvalidYear;
\* a valid year keeps exactly the records of that year.
C5_InvalidYearExactly ==
    Called =>
        /\ Q("release_date") # <<>> => (InvalidYearReported <=> YearMalformed)
        /\ Q("release_date") = <<>> => ~InvalidYearReported
        /\ (ResultsShown /\ Q("release_date") # <<>>) =>
              \A i \in 1..Len(result_window) : result_window[i].year = YearValue.val
        /\ (OnlyField("release_date") /\ ~YearMalformed) =>
              result_window = SelectSeq(D, LAMBDA rec : rec.year = YearValue.val)

(* ---------------------------------------------------------------------- *)
(* C6                                                                     *)
(* ---------------------------------------------------------------------- *)
\* C6: for a non-empty rating field InvalidRating is reported iff the text is
\* not a number in [1, 10]; a valid rating r keeps exactly the records rated
\* r or higher.
C6_InvalidRatingExactly ==
    Called =>
        /\ Q("rating") # <<>> => (InvalidRatingReported <=> RatingMalformed)
        /\ Q("rating") = <<>> => ~InvalidRatingReported
        /\ (ResultsShown /\ Q("rating") # <<>>) =>
              \A i \in 1..Len(result_window) : NumLeq(RatingValue, result_window[i].rating)
        /\ (OnlyField("rating") /\ ~RatingMalformed) =>
              result_window = SelectSeq(D, LAMBDA rec : NumLeq(RatingValue, rec.rating))

(* ---------------------------------------------------------------------- *)
(* C7                                                                     *)
(* ---------------------------------------------------------------------- *)
\* C7: a non-empty title, genre, actor or director text keeps a record iff
\* the text occurs in the record's attribute as a literal substring, case
\* ignored; '.', '*', '(' and '|' are matched as themselves.
C7_LiteralSubstring ==
    \A f \in TextFields :
        (Called /\ OnlyField(f)) =>
            /\ call.state = "returned"
            /\ \A i \in 1..Len(D) :
                  InSeq(D[i], result_window) <=> ContainsLiteral(Q(f), D[i][Column(f)])

(* ---------------------------------------------------------------------- *)
(* C8                                                                     *)
(* ---------------------------------------------------------------------- *)
OutcomeEmptyQuery == ReportLines = <<MsgInputRequired>> /\ ~ResultsShown
OutcomeErrors ==
    /\ ReportLines # <<>>
    /\ \A i \in 1..Len(ReportLines) :
          ReportLines[i] \in {MsgYearRange, MsgYearNotInt, MsgRatingRange, MsgRatingNotNum}
    /\ ~ResultsShown
OutcomeNoResults == ReportLines = <<MsgNoResults>> /\ ~ResultsShown
OutcomeShown == ReportLines = <<>> /\ ResultsShown

\* C8: every invocation completes with exactly one of EmptyQuery, a non-empty
\* list of validation errors, NoResults, or a non-empty shown dataset; none
\* is left part-way by an exception.
C8_AlwaysOneOutcome ==
    Called =>
        /\ call.state = "returned"
        /\ Cardinality({o \in {"e", "v", "n", "s"} :
                          \/ o = "e" /\ OutcomeEmptyQuery
                          \/ o = "v" /\ OutcomeErrors
                          \/ o = "n" /\ OutcomeNoResults
                          \/ o = "s" /\ OutcomeShown}) = 1

(* ---------------------------------------------------------------------- *)
(* C9                                                                     *)
(* ---------------------------------------------------------------------- *)
\* the predicate search_data evaluates for one field of the current query
CodePred(f, rec) ==
    IF Q(f) = <<>> THEN TRUE
    ELSE IF f \in TextFields THEN ReSearch(ReCompile(Q(f)).node, rec[Column(f)])
    ELSE IF f = "release_date" THEN rec.year = YearValue.val
    ELSE NumLeq(RatingValue, rec.rating)

\* one pass over the original dataset with the combined AND predicate
CombinedOnce == SelectSeq(D, LAMBDA rec : \A f \in FieldSet : CodePred(f, rec))

StepFor(f, st) ==
    IF f = "release_date" THEN YearStep(st)
    ELSE IF f = "rating" THEN RatingStep(st)
    ELSE ContainsStep(st, f, Column(f))

\* the handler's steps taken in another order
RECURSIVE ApplyFiltersIn(_, _)
ApplyFiltersIn(order, st) ==
    IF order = <<>> THEN st ELSE ApplyFiltersIn(Tail(order), StepFor(Head(order), st))

Rotate(seq, k) == [i \in 1..Len(seq) |-> seq[((i + k - 1) % Len(seq)) + 1]]
Reverse(seq) == [i \in 1..Len(seq) |-> seq[Len(seq) + 1 - i]]
Orders == {Rotate(Fields, k) : k \in 0..(Len(Fields) - 1)}
          \cup {Rotate(Reverse(Fields), k) : k \in 0..(Len(Fields) - 1)}

Completed == Called /\ call.state = "returned" /\ ValidQuery

\* C9: for every valid query the handler completes on, narrowing the working
\* set step by step (title, genre, year, rating, actor, director) leaves the
\* records, in the order, that one pass of the combined AND predicate over the
\* original dataset leaves, and so does taking the six steps in another order;
\* a query that makes the handler raise makes it raise in every order.
C9_ProgressiveEqualsCombined ==
    /\ Completed =>
        /\ ApplyFilters(D, entries).filtered_data = CombinedOnce
        /\ result_window = CombinedOnce
        /\ NoResultsReported <=> CombinedOnce = <<>>
        /\ \A o \in Orders :
              ApplyFiltersIn(o, Locals(D, entries)).filtered_data = CombinedOnce
    /\ (Called /\ ValidQuery /\ call.state = "raised") =>
        \A o \in Orders : ApplyFiltersIn(o, Locals(D, entries)).raised # ""

C9_Witness ==
    /\ Completed
    /\ Cardinality({f \in FieldSet : Q(f) # <<>>}) >= 3
    /\ Len(result_window) >= 1
    /\ Len(result_window) < Len(D)
    /\ \E f \in TextFields :
          /\ Q(f) # <<>>
          /\ SelectSeq(D, LAMBDA rec : CodePred(f, rec)) # result_window

(* ---------------------------------------------------------------------- *)
(* C10                                                                    *)
(* ---------------------------------------------------------------------- *)
\* C10: every invocation first disables the Search button; once it has ended
\* with the search window still open the button is enabled again; the button
\* is left disabled only when the search window was destroyed to show results.
C10_ButtonReenabled ==
    /\ Called => call.button[1] = "disabled"
    /\ (Called /\ search_window = "open") => search_button = "normal"
    /\ search_button = "disabled" => (search_window = "destroyed" /\ ResultsShown)

====
